---------------------------- MODULE Spec2Model ----------------------------
(***************************************************************************)
(* Model of lerna's BootstrapCommand (src/src/commands/BootstrapCommand.js) *)
(* : the dependency-placement planner (getDependenciesToInstall) and the    *)
(* callback-driven orchestrator (bootstrapPackages and the phases it runs). *)
(*                                                                         *)
(* Packages are numbered 1..NumPkgs; a package's name is its number.       *)
(* External dependency names are NumPkgs+1..NumPkgs+NumNames.  A range is a *)
(* number r in 1..NumRanges standing for the string "^1.<r-1>.0", so that   *)
(* the order of the numbers is the lexicographic order of the range        *)
(* strings; a version v stands for "1.<v-1>.0".  0 is "no such entry"       *)
(* (undefined in the source).                                              *)
(*                                                                         *)
(* Every callback of the source is one action: it carries the whole        *)
(* synchronous cascade the callback sets off (the pool's replenish, the    *)
(* next batch, the next step of async.series, planning and the first       *)
(* actions of the install phase).  async.series and async.parallelLimit    *)
(* are modelled as the async library runs them: tasks start in order, a    *)
(* pool calls back once, with the first error, and starts nothing after.   *)
(* Results of the disk (what is installed, the bin of a hoisted package)   *)
(* are drawn when the source reads them.  All packages are filtered        *)
(* packages and there is at least one: the early return of                 *)
(* runScriptInPackages for an empty filteredPackages is not reached.       *)
(*                                                                         *)
(* Spec runs the bootstrap for packages at the newest version with a       *)
(* node_modules of their own; SpecLocal lets the versions of the packages  *)
(* vary (the packages then declare each other only); SpecHoisted lets a    *)
(* package be the repository root, with hoisting; SpecFair is Spec with    *)
(* every call in flight calling back in the end.                           *)
(***************************************************************************)
EXTENDS Integers, Sequences, FiniteSets, TLC

NumPkgs == 2
NumNames == 1
NumRanges == 2
MaxConcurrency == 2

Packages == 1..NumPkgs
ExtNames == (NumPkgs + 1)..(NumPkgs + NumNames)
Names == Packages \cup ExtNames
Ranges == 1..NumRanges

SeqToSet(s) == {s[i] : i \in DOMAIN s}
InSeq(x, s) == \E i \in DOMAIN s : s[i] = x
Min(a, b) == IF a < b THEN a ELSE b

RECURSIVE Range1(_, _)
Range1(lo, hi) == IF lo > hi THEN <<>> ELSE <<lo>> \o Range1(lo + 1, hi)

RECURSIVE SelectInSeq(_, _)
SelectInSeq(s, S) ==
  IF s = <<>> THEN <<>>
  ELSE (IF Head(s) \in S THEN <<Head(s)>> ELSE <<>>) \o SelectInSeq(Tail(s), S)

VARIABLES
  useWorkspaces,    \* this.options.useWorkspaces
  toposort,         \* this.toposort
  concurrency,      \* this.concurrency
  hoist,            \* this.options.hoist (TRUE: the pattern "**")
  nohoist,          \* this.options.nohoist: the names the pattern matches
  pkgVersion,       \* pkg.version of every package
  allDependencies,  \* pkg.allDependencies: name -> range (0: not declared)
  rootDeps,         \* this.repository.package.allDependencies
  nodeModules,      \* pkg.nodeModulesLocation of every package
  batchedPackages,  \* this.batchedPackages
  phase,            \* the step of bootstrapPackages that is running
  batch,            \* index of the batch a lifecycle phase is running
  script,           \* per lifecycle phase and package: state of pkg.runScript
  plan,             \* { root, leaves } of installExternalDependencies
  warnings,         \* the tracker.warn calls of getDependenciesToInstall
  probes,           \* the hasDependencyInstalled calls made so far
  planned,          \* number of calls of getDependenciesToInstall
  actions,          \* the actions array handed to async.parallelLimit
  actionState,      \* per action: queued, running, done or failed
  linkPos,          \* root action: next <<root entry, dependent>> to link
  prunePos,         \* prune action: index of the candidate being removed
  installs,         \* installer invocations made so far, in order
  links,            \* createBinaryLink calls made so far
  removed,          \* directories rimraf was called on
  symlinked,        \* state of PackageUtilities.symlinkPackages
  errored,          \* the running async.parallelLimit has seen an error
  result,           \* what bootstrapPackages passed to its callback
  callbacks,        \* number of times that callback was invoked
  returns           \* number of callbacks the collaborators have invoked

config == <<useWorkspaces, toposort, concurrency, hoist, nohoist, pkgVersion,
            allDependencies, rootDeps, nodeModules, batchedPackages>>
vars == <<useWorkspaces, toposort, concurrency, hoist, nohoist, pkgVersion,
          allDependencies, rootDeps, nodeModules, batchedPackages, phase, batch,
          script, plan, warnings, probes, planned, actions, actionState, linkPos,
          prunePos, installs, links, removed, symlinked, errored, result,
          callbacks, returns>>

-----------------------------------------------------------------------------
(* The planner: getDependenciesToInstall.                                   *)

\* semver.satisfies(version, range) on the caret ranges of the model:
\* "1.<v-1>.0" satisfies "^1.<r-1>.0" iff v >= r.
satisfies(version, range) == version >= range

\* findPackage(name, version): the package of that name whose version
\* satisfies the range, 0 when there is none (version 0: any version).
findPackageByName(name, version) == IF name \in Packages THEN name ELSE 0

findPackage(name, version) ==
  IF name \in Packages /\ (version = 0 \/ satisfies(pkgVersion[name], version))
  THEN name ELSE 0

hasPackage(name, version) == findPackage(name, version) # 0

\* PackageUtilities.isHoistedPackage(name, hoist, nohoist)
isHoistedPackage(name) == hoist /\ name \notin nohoist

\* depsToInstall, with the key order of the JavaScript objects kept:
\* keys is Object.keys(depsToInstall), vkeys[n] is Object.keys(versions).
EmptyDeps ==
  [keys |-> <<>>,
   vkeys |-> [n \in Names |-> <<>>],
   versions |-> [n \in Names |-> [r \in Ranges |-> 0]],
   dependents |-> [n \in Names |-> [r \in Ranges |-> <<>>]]]

\* depsToInstall[name] = { versions: {[version]: 0}, dependents: {[version]: []} }
seedRoot(deps, name) ==
  IF rootDeps[name] = 0 THEN deps
  ELSE [deps EXCEPT !.keys = Append(@, name),
                    !.vkeys[name] = <<rootDeps[name]>>]

RECURSIVE seedRootAll(_, _)
seedRootAll(deps, names) ==
  IF names = <<>> THEN deps
  ELSE seedRootAll(seedRoot(deps, Head(names)), Tail(names))

\* The body of the inner forEach: record that pkg needs name@version.
recordDep(deps, name, version, pkg) ==
  LET d1 == IF InSeq(name, deps.keys) THEN deps
            ELSE [deps EXCEPT !.keys = Append(@, name)]
      d2 == IF d1.versions[name][version] = 0
            THEN [d1 EXCEPT !.vkeys[name] =
                               IF InSeq(version, @) THEN @ ELSE Append(@, version),
                            !.versions[name][version] = 0,
                            !.dependents[name][version] = <<>>]
            ELSE d1
  IN [d2 EXCEPT !.versions[name][version] = @ + 1,
                !.dependents[name][version] = Append(@, pkg)]

\* pkg.hasMatchingDependency(dep, true): nomatch holds the <<pkg, name>> pairs
\* for which it answers false.
hasMatchingDependency(pkg, name, nomatch) == <<pkg, name>> \notin nomatch

\* The .map and .filter of one dependency of pkg: <<name, version>> of the
\* dependency to install, <<>> when it is a matching local package.
externalDep(pkg, name, nomatch) ==
  LET range == allDependencies[pkg][name]
      found == findPackage(name, range)
      depVersion == IF found # 0 THEN pkgVersion[found] ELSE range
  IN IF range = 0 THEN <<>>
     ELSE IF ~hasPackage(name, depVersion) \/ ~hasMatchingDependency(pkg, name, nomatch)
          THEN <<name, depVersion>>
          ELSE <<>>

RECURSIVE recordPkg(_, _, _, _)
recordPkg(deps, pkg, names, nomatch) ==
  IF names = <<>> THEN deps
  ELSE LET dep == externalDep(pkg, Head(names), nomatch)
       IN recordPkg(IF dep = <<>> THEN deps ELSE recordDep(deps, dep[1], dep[2], pkg),
                    pkg, Tail(names), nomatch)

RECURSIVE recordAll(_, _, _)
recordAll(deps, pkgs, nomatch) ==
  IF pkgs = <<>> THEN deps
  ELSE recordAll(recordPkg(deps, Head(pkgs), Range1(1, NumPkgs + NumNames), nomatch),
                 Tail(pkgs), nomatch)

\* this.filteredPackages
filteredPackages == Range1(1, NumPkgs)

depsToInstall(nomatch) ==
  recordAll(seedRootAll(EmptyDeps, Range1(1, NumPkgs + NumNames)),
            filteredPackages, nomatch)

RECURSIVE reduceVersionsFirst(_, _, _)
reduceVersionsFirst(versions, keys, a) ==
  IF keys = <<>> THEN a
  ELSE reduceVersionsFirst(versions, Tail(keys),
                           IF versions[a] >= versions[Head(keys)] THEN a ELSE Head(keys))

\* Object.keys(versions).reduce((a, b) => versions[a] > versions[b] ? a : b)
RECURSIVE reduceVersions(_, _, _)
reduceVersions(versions, keys, a) ==
  IF keys = <<>> THEN a
  ELSE reduceVersions(versions, Tail(keys),
                      IF versions[a] > versions[Head(keys)] THEN a ELSE Head(keys))

commonVersion(deps, name) ==
  reduceVersions(deps.versions[name], Tail(deps.vkeys[name]), Head(deps.vkeys[name]))

\* rootVersion of a name: 0 (undefined) when the name is not hoisted.
rootVersion(deps, name) ==
  IF isHoistedPackage(name)
  THEN (IF rootDeps[name] # 0 THEN rootDeps[name] ELSE commonVersion(deps, name))
  ELSE 0

RECURSIVE allDependents(_, _, _)
allDependents(deps, name, vkeys) ==
  IF vkeys = <<>> THEN <<>>
  ELSE deps.dependents[name][Head(vkeys)] \o allDependents(deps, name, Tail(vkeys))

RECURSIVE planRootAllDependents(_, _, _)
planRootAllDependents(deps, names, rootInst) ==
  IF names = <<>> THEN <<>>
  ELSE (IF rootVersion(deps, Head(names)) = 0 THEN <<>>
        ELSE << [name |-> Head(names),
                 dependents |-> allDependents(deps, Head(names), deps.vkeys[Head(names)]),
                 range |-> rootVersion(deps, Head(names)),
                 isSatisfied |-> Head(names) \in rootInst] >>)
       \o planRootAllDependents(deps, Tail(names), rootInst)

RECURSIVE planRootUnsatisfied(_, _, _)
planRootUnsatisfied(deps, names, rootInst) ==
  IF names = <<>> THEN <<>>
  ELSE (IF rootVersion(deps, Head(names)) = 0 \/ Head(names) \in rootInst THEN <<>>
        ELSE << [name |-> Head(names),
                 dependents |-> deps.dependents[Head(names)][rootVersion(deps, Head(names))],
                 range |-> rootVersion(deps, Head(names)),
                 isSatisfied |-> FALSE] >>)
       \o planRootUnsatisfied(deps, Tail(names), rootInst)

\* root.push({ name, dependents, dependency, isSatisfied }); dependency is
\* the string name@range, kept as the pair of the entry's name and range.
\* rootInst: the names repository.hasDependencyInstalled answers true for.
RECURSIVE planRoot(_, _, _)
planRoot(deps, names, rootInst) ==
  IF names = <<>> THEN <<>>
  ELSE LET name == Head(names)
           rv == rootVersion(deps, name)
       IN (IF rv = 0 THEN <<>>
           ELSE << [name |-> name,
                    dependents |-> deps.dependents[name][rv],
                    range |-> rv,
                    isSatisfied |-> name \in rootInst] >>)
          \o planRoot(deps, Tail(names), rootInst)

\* dependents[version].forEach((pkg) => ...): the leaf pushes of one version.
RECURSIVE versionPushes(_, _, _)
versionPushes(name, version, pkgs) ==
  IF pkgs = <<>> THEN <<>>
  ELSE << [pkg |-> Head(pkgs), name |-> name, range |-> version] >>
       \o versionPushes(name, version, Tail(pkgs))

RECURSIVE leafPushesAll(_, _, _)
leafPushesAll(deps, name, vkeys) ==
  IF vkeys = <<>> THEN <<>>
  ELSE versionPushes(name, Head(vkeys), deps.dependents[name][Head(vkeys)])
       \o leafPushesAll(deps, name, Tail(vkeys))

\* Object.keys(versions).forEach((version) => ...): the versions in key
\* order, the root version skipped (if (version === rootVersion) return).
RECURSIVE leafPushes(_, _, _)
leafPushes(deps, name, vkeys) ==
  IF vkeys = <<>> THEN <<>>
  ELSE (IF Head(vkeys) = rootVersion(deps, name) THEN <<>>
        ELSE versionPushes(name, Head(vkeys), deps.dependents[name][Head(vkeys)]))
       \o leafPushes(deps, name, Tail(vkeys))

RECURSIVE allLeafPushes(_, _)
allLeafPushes(deps, names) ==
  IF names = <<>> THEN <<>>
  ELSE leafPushes(deps, Head(names), deps.vkeys[Head(names)])
       \o allLeafPushes(deps, Tail(names))

\* (leaves[pkg] || (leaves[pkg] = [])).push({ dependency, isSatisfied });
\* pkgInst: the <<pkg, name>> pairs pkg.hasDependencyInstalled answers true for.
RECURSIVE planLeaves(_, _, _)
planLeaves(leaves, pushes, pkgInst) ==
  IF pushes = <<>> THEN leaves
  ELSE LET e == Head(pushes)
           entry == [name |-> e.name, range |-> e.range,
                     isSatisfied |-> <<e.pkg, e.name>> \in pkgInst]
       IN planLeaves([keys |-> IF InSeq(e.pkg, leaves.keys) THEN leaves.keys
                               ELSE Append(leaves.keys, e.pkg),
                      deps |-> [leaves.deps EXCEPT ![e.pkg] = Append(@, entry)]],
                     Tail(pushes), pkgInst)

EmptyLeaves == [keys |-> <<>>, deps |-> [p \in Packages |-> <<>>]]
EmptyPlan == [root |-> <<>>, leaves |-> EmptyLeaves]

\* getDependenciesToInstall(tracker): { root, leaves }
getDependenciesToInstall(nomatch, rootInst, pkgInst) ==
  LET deps == depsToInstall(nomatch)
  IN [root |-> planRoot(deps, deps.keys, rootInst),
      leaves |-> planLeaves(EmptyLeaves, allLeafPushes(deps, deps.keys), pkgInst)]

\* tracker.warn("EHOIST_ROOT_VERSION", ...): name@version is what the root
\* depends on, name@other the more common one.
rootWarningDeclared(deps, name) ==
  IF rootVersion(deps, name) # 0 /\ rootDeps[name] # 0
  THEN << [code |-> "EHOIST_ROOT_VERSION", name |-> name, pkg |-> 0,
           version |-> rootVersion(deps, name),
           other |-> commonVersion(deps, name)] >>
  ELSE <<>>

rootWarning(deps, name) ==
  IF rootVersion(deps, name) # 0 /\ rootVersion(deps, name) # commonVersion(deps, name)
  THEN << [code |-> "EHOIST_ROOT_VERSION", name |-> name, pkg |-> 0,
           version |-> rootVersion(deps, name),
           other |-> commonVersion(deps, name)] >>
  ELSE <<>>

\* tracker.warn("EHOIST_PKG_VERSION", ...) of the leaf pushes of one name:
\* pkg depends on name@version, which differs from the hoisted name@other.
RECURSIVE pkgWarnings(_, _)
pkgWarnings(deps, pushes) ==
  IF pushes = <<>> THEN <<>>
  ELSE (IF rootVersion(deps, Head(pushes).name) # 0
        THEN << [code |-> "EHOIST_PKG_VERSION", name |-> Head(pushes).name,
                 pkg |-> Head(pushes).pkg, version |-> Head(pushes).range,
                 other |-> rootVersion(deps, Head(pushes).name)] >>
        ELSE <<>>)
       \o pkgWarnings(deps, Tail(pushes))

\* The warnings of one run of getDependenciesToInstall, in the order of the
\* names of depsToInstall.
RECURSIVE warningsOf(_, _)
warningsOf(deps, names) ==
  IF names = <<>> THEN <<>>
  ELSE rootWarning(deps, Head(names))
       \o pkgWarnings(deps, leafPushes(deps, Head(names), deps.vkeys[Head(names)]))
       \o warningsOf(deps, Tail(names))

\* pkg.hasMatchingDependency(dep, true) of one package: called in the filter
\* for the dependencies hasPackage finds, with the answer it gives.
RECURSIVE matchProbesOf(_, _, _)
matchProbesOf(pkg, names, nomatch) ==
  IF names = <<>> THEN <<>>
  ELSE (IF allDependencies[pkg][Head(names)] # 0
           /\ hasPackage(Head(names), allDependencies[pkg][Head(names)])
        THEN << [call |-> "hasMatchingDependency", dir |-> pkg, name |-> Head(names),
                 answer |-> hasMatchingDependency(pkg, Head(names), nomatch)] >>
        ELSE <<>>)
       \o matchProbesOf(pkg, Tail(names), nomatch)

RECURSIVE matchProbes(_, _)
matchProbes(pkgs, nomatch) ==
  IF pkgs = <<>> THEN <<>>
  ELSE matchProbesOf(Head(pkgs), Range1(1, NumPkgs + NumNames), nomatch)
       \o matchProbes(Tail(pkgs), nomatch)

\* findPackage(pkg).hasDependencyInstalled(name) of the leaf pushes of one name
RECURSIVE leafProbes(_, _)
leafProbes(pushes, pkgInst) ==
  IF pushes = <<>> THEN <<>>
  ELSE << [call |-> "hasDependencyInstalled", dir |-> Head(pushes).pkg,
           name |-> Head(pushes).name,
           answer |-> <<Head(pushes).pkg, Head(pushes).name>> \in pkgInst] >>
       \o leafProbes(Tail(pushes), pkgInst)

\* The hasDependencyInstalled calls of the forEach of line 320:
\* this.repository.hasDependencyInstalled(name, rootVersion) of a hoisted
\* name (dir 0: the repository), then the calls of its leaf pushes.
RECURSIVE installedProbes(_, _, _, _)
installedProbes(deps, names, rootInst, pkgInst) ==
  IF names = <<>> THEN <<>>
  ELSE (IF rootVersion(deps, Head(names)) # 0
        THEN << [call |-> "hasDependencyInstalled", dir |-> 0, name |-> Head(names),
                 answer |-> Head(names) \in rootInst] >>
        ELSE <<>>)
       \o leafProbes(leafPushes(deps, Head(names), deps.vkeys[Head(names)]), pkgInst)
       \o installedProbes(deps, Tail(names), rootInst, pkgInst)

\* The reads of the disk of one run of getDependenciesToInstall, in order.
probesOf(nomatch, rootInst, pkgInst) ==
  matchProbes(filteredPackages, nomatch)
  \o installedProbes(depsToInstall(nomatch), depsToInstall(nomatch).keys,
                     rootInst, pkgInst)

\* What the probes of one planning run can answer: only the entries the
\* planner consults are drawn.
LocalPairs ==
  {pn \in Packages \X Packages :
     /\ allDependencies[pn[1]][pn[2]] # 0
     /\ hasPackage(pn[2], allDependencies[pn[1]][pn[2]])}
RootProbes(nomatch) ==
  SUBSET {n \in SeqToSet(depsToInstall(nomatch).keys) :
            rootVersion(depsToInstall(nomatch), n) # 0}
PkgProbes(nomatch) ==
  LET pushes == allLeafPushes(depsToInstall(nomatch), depsToInstall(nomatch).keys)
  IN SUBSET {<<pushes[i].pkg, pushes[i].name>> : i \in DOMAIN pushes}

-----------------------------------------------------------------------------
(* initialize: the batches the lifecycle phases run in.                      *)

\* An edge of the package graph: a declares b, a package of the repository
\* whose version satisfies the declared range.
dependsOn(a, b) ==
  /\ a # b
  /\ b \in Packages
  /\ allDependencies[a][b] # 0
  /\ satisfies(pkgVersion[b], allDependencies[a][b])

\* The packages of pkgs with no dependency left among pkgs.
readyPackages(pkgs) ==
  {p \in SeqToSet(pkgs) : \A q \in SeqToSet(pkgs) : ~dependsOn(p, q)}

\* PackageUtilities.topologicallyBatchPackages(packages)
RECURSIVE topologicallyBatchPackages(_)
topologicallyBatchPackages(pkgs) ==
  IF pkgs = <<>> THEN <<>>
  ELSE << SelectInSeq(pkgs, readyPackages(pkgs)) >>
       \o topologicallyBatchPackages(
            SelectInSeq(pkgs, SeqToSet(pkgs) \ readyPackages(pkgs)))

\* A dependency cycle is a fatal configuration error: no bootstrap runs.
RECURSIVE acyclic(_)
acyclic(pkgs) ==
  \/ pkgs = <<>>
  \/ /\ readyPackages(pkgs) # {}
     /\ acyclic(SelectInSeq(pkgs, SeqToSet(pkgs) \ readyPackages(pkgs)))

initializeUnsorted(sorted) == << filteredPackages >>

\* this.batchedPackages = this.toposort ? topologicallyBatchPackages(...)
\*                                      : [this.filteredPackages]
initialize(sorted) ==
  IF sorted THEN topologicallyBatchPackages(filteredPackages)
  ELSE << filteredPackages >>

-----------------------------------------------------------------------------
(* installExternalDependencies: the actions and the pool that runs them.     *)

RootPath == 0

specsOf(entries) == [i \in DOMAIN entries |-> <<entries[i].name, entries[i].range>>]

depsToInstallInRootEvery(root) ==
  IF \A i \in DOMAIN root : ~root[i].isSatisfied THEN specsOf(root) ELSE <<>>

\* depsToInstallInRoot
depsToInstallInRoot(root) ==
  IF \E i \in DOMAIN root : ~root[i].isSatisfied THEN specsOf(root) ELSE <<>>

rootAction(root) ==
  [kind |-> "root", dir |-> RootPath, specs |-> depsToInstallInRoot(root),
   globalStyle |-> FALSE]

pruneAction ==
  [kind |-> "prune", dir |-> RootPath, specs |-> <<>>, globalStyle |-> FALSE]

leafActionEvery(leaves, pkg) ==
  IF \A i \in DOMAIN leaves.deps[pkg] : ~leaves.deps[pkg][i].isSatisfied
  THEN << [kind |-> "leaf", dir |-> pkg, specs |-> specsOf(leaves.deps[pkg]),
           globalStyle |-> hoist] >>
  ELSE <<>>

\* The leaf action of one package, <<>> when all its leaves are satisfied.
leafAction(leaves, pkg) ==
  IF \E i \in DOMAIN leaves.deps[pkg] : ~leaves.deps[pkg][i].isSatisfied
  THEN << [kind |-> "leaf", dir |-> pkg, specs |-> specsOf(leaves.deps[pkg]),
           globalStyle |-> hoist] >>
  ELSE <<>>

RECURSIVE leafActions(_, _)
leafActions(leaves, keys) ==
  IF keys = <<>> THEN <<>>
  ELSE leafAction(leaves, Head(keys)) \o leafActions(leaves, Tail(keys))

\* The actions array as line 503 finds it.
buildActions(p) ==
  (IF Len(p.root) > 0 THEN << rootAction(p.root), pruneAction >> ELSE <<>>)
  \o leafActions(p.leaves, p.leaves.keys)

\* pkg.nodeModulesLocation and this.repository.nodeModulesLocation
rootNodeModulesLocation == <<"node_modules">>
ownNodeModulesLocation(pkg) == <<"packages", pkg, "node_modules">>
nodeModulesLocation(pkg) == nodeModules[pkg]

RECURSIVE entryDirsAll(_, _)
entryDirsAll(name, dependents) ==
  IF dependents = <<>> THEN <<>>
  ELSE << <<Head(dependents), name>> >> \o entryDirsAll(name, Tail(dependents))

\* path.join(pkg.nodeModulesLocation, name) of the dependents of one entry
RECURSIVE entryDirs(_, _)
entryDirs(name, dependents) ==
  IF dependents = <<>> THEN <<>>
  ELSE (IF nodeModulesLocation(Head(dependents)) # rootNodeModulesLocation
        THEN << <<Head(dependents), name>> >> ELSE <<>>)
       \o entryDirs(name, Tail(dependents))

\* candidates of the prune action
RECURSIVE pruneCandidates(_)
pruneCandidates(root) ==
  IF root = <<>> THEN <<>>
  ELSE entryDirs(Head(root).name, Head(root).dependents)
       \o pruneCandidates(Tail(root))

invocation(a) ==
  [dir |-> a.dir, specs |-> a.specs, globalStyle |-> a.globalStyle,
   original |-> FALSE]

running(state) == Cardinality({i \in DOMAIN state : state[i] = "running"})
queued(state) == {i \in DOMAIN state : state[i] = "queued"}
firstQueued(state) == CHOOSE i \in queued(state) : \A j \in queued(state) : i <= j

startActionReprobe(ps, acts, root, i) ==
  CASE acts[i].kind = "prune" ->
         IF pruneCandidates(root) = <<>>
         THEN [ps EXCEPT !.state[i] = "done"]
         ELSE [ps EXCEPT !.state[i] = "running",
                         !.removed = Append(@, pruneCandidates(root)[1]),
                         !.prunePos = 1]
    [] acts[i].kind = "leaf" /\ ps.state[1] = "done" ->
         [ps EXCEPT !.state[i] = "done"]
    [] OTHER ->
         [ps EXCEPT !.state[i] = "running",
                    !.installs = Append(@, invocation(acts[i]))]

\* Calling action i: what it does before it first waits.
startAction(ps, acts, root, i) ==
  CASE acts[i].kind = "prune" ->
         IF pruneCandidates(root) = <<>>
         THEN [ps EXCEPT !.state[i] = "done"]
         ELSE [ps EXCEPT !.state[i] = "running",
                         !.removed = Append(@, pruneCandidates(root)[1]),
                         !.prunePos = 1]
    [] OTHER ->
         [ps EXCEPT !.state[i] = "running",
                    !.installs = Append(@, invocation(acts[i]))]

RECURSIVE replenishUnlimited(_, _, _, _)
replenishUnlimited(ps, acts, root, limit) ==
  IF queued(ps.state) # {}
  THEN replenishUnlimited(startAction(ps, acts, root, firstQueued(ps.state)),
                          acts, root, limit)
  ELSE ps

\* async.parallelLimit's replenish: start queued tasks, in order, while
\* fewer than the limit are running.
RECURSIVE replenish(_, _, _, _)
replenish(ps, acts, root, limit) ==
  IF running(ps.state) < limit /\ queued(ps.state) # {}
  THEN replenish(startAction(ps, acts, root, firstQueued(ps.state)), acts, root, limit)
  ELSE ps

pool == [state |-> actionState, installs |-> installs, removed |-> removed,
         prunePos |-> prunePos]

SetPool(ps) ==
  /\ actionState' = ps.state
  /\ installs' = ps.installs
  /\ removed' = ps.removed
  /\ prunePos' = ps.prunePos

noneQueued(state) == \A i \in DOMAIN state : state[i] # "queued"
allDone(state) == \A i \in DOMAIN state : state[i] = "done"

-----------------------------------------------------------------------------
(* The orchestrator: bootstrapPackages and the callbacks that drive it.      *)

LifecyclePhases == {"preinstall", "postinstall", "prepublish", "prepare"}

NoResult == [status |-> "none", kind |-> "", origin |-> 0, annotated |-> FALSE, pkg |-> 0]
Success == [status |-> "ok", kind |-> "", origin |-> 0, annotated |-> FALSE, pkg |-> 0]

\* An error as a collaborator reports it: kind and origin say which call
\* failed and for which package (RootPath: the repository root); it carries
\* no pkg property.
Error(kind, origin) ==
  [status |-> "error", kind |-> kind, origin |-> origin, annotated |-> FALSE, pkg |-> 0]

\* if (err) { err.pkg = pkg; }
annotate(err, pkg) == [err EXCEPT !.annotated = TRUE, !.pkg = pkg]

\* The error runScriptInPackages hands to done(err)
scriptError(pkg) == annotate(Error("script", pkg), pkg)

\* The error the leaf install action hands to cb(err)
leafError(pkg) == Error("install", pkg)

\* done(err): what the task of runScriptInPackages reports to the pool
doneDropped(err) == FALSE
doneArg(err) == err

\* callback(err) of bootstrapPackages
Fail(err) ==
  /\ phase' = "failed"
  /\ result' = err
  /\ callbacks' = callbacks + 1

\* The first tasks of batch b of a lifecycle phase, started by parallelLimit.
startBatch(s, ph, b) ==
  LET pkgs == batchedPackages[b]
  IN [s EXCEPT ![ph] = [p \in Packages |->
        IF \E i \in 1..Min(concurrency, Len(pkgs)) : pkgs[i] = p
        THEN "running" ELSE @[p]]]

\* runScriptInPackages(scriptName, callback) called by async.series
BeginLifecycle(ph, s) ==
  /\ phase' = ph
  /\ batch' = 1
  /\ script' = startBatch(s, ph, 1)

\* symlinkPackages(cb)
BeginSymlink ==
  /\ phase' = "symlink"
  /\ symlinked' = "running"

BeginInstallUnplanned ==
  /\ UNCHANGED <<plan, warnings, probes, planned, actions, actionState,
                 prunePos, installs, removed>>
  /\ BeginSymlink

\* installExternalDependencies(callback): plan, queue the actions, start
\* the first of them; with no action the pool calls back at once.
BeginInstall ==
  \E nomatch \in SUBSET LocalPairs :
    \E rootInst \in RootProbes(nomatch), pkgInst \in PkgProbes(nomatch) :
      LET p == getDependenciesToInstall(nomatch, rootInst, pkgInst)
          acts == buildActions(p)
          ps == [pool EXCEPT !.state = [i \in 1..Len(acts) |-> "queued"]]
      IN /\ plan' = p
         /\ warnings' = warnings \o warningsOf(depsToInstall(nomatch),
                                               depsToInstall(nomatch).keys)
         /\ probes' = probes \o probesOf(nomatch, rootInst, pkgInst)
         /\ planned' = planned + 1
         /\ actions' = acts
         /\ SetPool(replenish(ps, acts, p.root, concurrency))
         /\ IF acts = <<>>
            THEN BeginSymlink
            ELSE phase' = "install" /\ UNCHANGED symlinked

BootstrapSeriesOnly ==
  /\ phase = "idle"
  /\ BeginLifecycle("preinstall", script)
  /\ UNCHANGED <<config, plan, warnings, probes, planned, actions, actionState,
                 linkPos, prunePos, installs, links, removed, symlinked,
                 errored, result, callbacks, returns>>

\* execute -> bootstrapPackages(callback)
Bootstrap ==
  /\ phase = "idle"
  /\ IF useWorkspaces
     THEN /\ phase' = "workspaces"
          /\ installs' = Append(installs,
               [dir |-> RootPath, specs |-> <<>>, globalStyle |-> FALSE,
                original |-> TRUE])
          /\ UNCHANGED <<batch, script>>
     ELSE /\ BeginLifecycle("preinstall", script)
          /\ UNCHANGED installs
  /\ UNCHANGED <<config, plan, warnings, probes, planned, actions, actionState,
                 linkPos, prunePos, links, removed, symlinked, errored, result,
                 callbacks, returns>>

\* The callback of installInDirOriginalPackageJson (installRootPackageOnly)
WorkspacesInstalled(err) ==
  /\ returns' = returns + 1
  /\ phase = "workspaces"
  /\ IF err
     THEN Fail(Error("install", RootPath))
     ELSE phase' = "done" /\ result' = Success /\ callbacks' = callbacks + 1
  /\ UNCHANGED <<config, batch, script, plan, warnings, probes, planned,
                 actions, actionState, linkPos, prunePos, installs, links,
                 removed, symlinked, errored>>

\* The packages of the running batch whose task has not been started.
idleInBatch(s, ph) ==
  {i \in DOMAIN batchedPackages[batch] : s[ph][batchedPackages[batch][i]] = "idle"}

\* The callback of pkg.runScript(scriptName, ...) for package p of phase ph,
\* with all that done(err) sets off.
ScriptDone(ph, p, err) ==
  /\ returns' = returns + 1
  /\ script[ph][p] = "running"
  /\ LET s == [script EXCEPT ![ph][p] = IF err THEN "failed" ELSE "ok"]
         idle == idleInBatch(s, ph)
         next == CHOOSE i \in idle : \A j \in idle : i <= j
     IN IF errored
        THEN \* the pool has called back already: nothing follows
             /\ script' = s
             /\ UNCHANGED <<phase, batch, plan, warnings, probes, planned,
                            actions, actionState, prunePos, installs, removed,
                            symlinked, errored, result, callbacks>>
        ELSE IF doneArg(err)
        THEN /\ script' = s
             /\ errored' = TRUE
             /\ Fail(scriptError(p))
             /\ UNCHANGED <<batch, plan, warnings, probes, planned, actions,
                            actionState, prunePos, installs, removed,
                            symlinked>>
        ELSE IF idle # {}
        THEN \* replenish: one more task of the batch
             /\ script' = [s EXCEPT ![ph][batchedPackages[batch][next]] = "running"]
             /\ UNCHANGED <<phase, batch, plan, warnings, probes, planned,
                            actions, actionState, prunePos, installs, removed,
                            symlinked, errored, result, callbacks>>
        ELSE IF \E q \in Packages : s[ph][q] = "running"
        THEN /\ script' = s
             /\ UNCHANGED <<phase, batch, plan, warnings, probes, planned,
                            actions, actionState, prunePos, installs, removed,
                            symlinked, errored, result, callbacks>>
        ELSE IF batch < Len(batchedPackages)
        THEN \* async.series: the next batch
             /\ batch' = batch + 1
             /\ script' = startBatch(s, ph, batch + 1)
             /\ UNCHANGED <<phase, plan, warnings, probes, planned, actions,
                            actionState, prunePos, installs, removed,
                            symlinked, errored, result, callbacks>>
        ELSE \* the phase is complete: async.series calls the next step
             CASE ph = "preinstall" ->
                    /\ script' = s
                    /\ BeginInstall
                    /\ UNCHANGED <<batch, errored, result, callbacks>>
               [] ph = "postinstall" ->
                    /\ BeginLifecycle("prepublish", s)
                    /\ UNCHANGED <<plan, warnings, probes, planned, actions,
                                   actionState, prunePos, installs, removed,
                                   symlinked, errored, result, callbacks>>
               [] ph = "prepublish" ->
                    /\ BeginLifecycle("prepare", s)
                    /\ UNCHANGED <<plan, warnings, probes, planned, actions,
                                   actionState, prunePos, installs, removed,
                                   symlinked, errored, result, callbacks>>
               [] ph = "prepare" ->
                    /\ script' = s
                    /\ phase' = "done"
                    /\ result' = Success
                    /\ callbacks' = callbacks + 1
                    /\ UNCHANGED <<batch, plan, warnings, probes, planned,
                                   actions, actionState, prunePos, installs,
                                   removed, symlinked, errored>>
  /\ UNCHANGED <<config, linkPos, links>>

FinishActionNoCancel(ps, failed, err) ==
  IF errored
  THEN /\ SetPool(replenish(ps, actions, plan.root, concurrency))
       /\ UNCHANGED <<phase, symlinked, errored, result, callbacks>>
  ELSE IF failed
  THEN /\ SetPool(ps)
       /\ errored' = TRUE
       /\ Fail(err)
       /\ UNCHANGED symlinked
  ELSE LET ps1 == replenish(ps, actions, plan.root, concurrency)
       IN /\ SetPool(ps1)
          /\ UNCHANGED <<errored, result, callbacks>>
          /\ IF allDone(ps1.state) THEN BeginSymlink
             ELSE UNCHANGED <<phase, symlinked>>

FinishActionEveryError(ps, failed, err) ==
  IF failed
  THEN /\ SetPool(ps)
       /\ errored' = TRUE
       /\ Fail(err)
       /\ UNCHANGED symlinked
  ELSE IF errored
  THEN /\ SetPool(ps)
       /\ UNCHANGED <<phase, symlinked, errored, result, callbacks>>
  ELSE LET ps1 == replenish(ps, actions, plan.root, concurrency)
       IN /\ SetPool(ps1)
          /\ UNCHANGED <<errored, result, callbacks>>
          /\ IF allDone(ps1.state) THEN BeginSymlink
             ELSE UNCHANGED <<phase, symlinked>>

\* cb(err) of an action of the pool, ps being the pool with the action's
\* state set: the iteratee callback of async.parallelLimit and, when the
\* last action is done, the callback of installExternalDependencies.
FinishAction(ps, failed, err) ==
  IF errored
  THEN /\ SetPool(ps)
       /\ UNCHANGED <<phase, symlinked, errored, result, callbacks>>
  ELSE IF failed
  THEN /\ SetPool(ps)
       /\ errored' = TRUE
       /\ Fail(err)
       /\ UNCHANGED symlinked
  ELSE LET ps1 == replenish(ps, actions, plan.root, concurrency)
       IN /\ SetPool(ps1)
          /\ UNCHANGED <<errored, result, callbacks>>
          /\ IF allDone(ps1.state) THEN BeginSymlink
             ELSE UNCHANGED <<phase, symlinked>>

binaryLinkFirst(k, j) == [name |-> plan.root[k].name, pkg |-> plan.root[k].dependents[1]]

\* The root entries from index from on that have dependents to link.  Whether
\* an entry is linked hangs on the bin of its installed package.json, read
\* when the entry's turn comes.
linkable(from) ==
  {k \in from..Len(plan.root) : Len(plan.root[k].dependents) > 0}

binaryLink(k, j) == [name |-> plan.root[k].name, pkg |-> plan.root[k].dependents[j]]

\* Go on linking at some entry k with a bin (k = 0: no such entry is left,
\* the root action is done).
LinkFrom(k) ==
  IF k = 0
  THEN /\ linkPos' = <<0, 0>>
       /\ UNCHANGED links
       /\ FinishAction([pool EXCEPT !.state[1] = "done"], FALSE, NoResult)
  ELSE /\ linkPos' = <<k, 1>>
       /\ links' = Append(links, binaryLink(k, 1))
       /\ UNCHANGED <<phase, actionState, prunePos, installs, removed,
                      symlinked, errored, result, callbacks>>

\* The callback of NpmUtilities.installInDir of the root install action
RootInstalled(err) ==
  /\ returns' = returns + 1
  /\ Len(actions) > 0
  /\ actions[1].kind = "root"
  /\ actionState[1] = "running"
  /\ linkPos = <<0, 0>>
  /\ IF err
     THEN /\ FinishAction([pool EXCEPT !.state[1] = "failed"], TRUE,
                          Error("install", RootPath))
          /\ UNCHANGED <<linkPos, links>>
     ELSE \E k \in linkable(1) \cup {0} : LinkFrom(k)
  /\ UNCHANGED <<config, batch, script, plan, warnings, probes, planned,
                 actions>>

\* The callback of PackageUtilities.createBinaryLink
LinkDone(err) ==
  /\ returns' = returns + 1
  /\ linkPos # <<0, 0>>
  /\ LET k == linkPos[1]
         j == linkPos[2]
     IN IF err
        THEN /\ linkPos' = <<0, 0>>
             /\ UNCHANGED links
             /\ FinishAction([pool EXCEPT !.state[1] = "failed"], TRUE,
                             Error("link", plan.root[k].dependents[j]))
        ELSE IF j < Len(plan.root[k].dependents)
        THEN /\ linkPos' = <<k, j + 1>>
             /\ links' = Append(links, binaryLink(k, j + 1))
             /\ UNCHANGED <<phase, actionState, prunePos, installs, removed,
                            symlinked, errored, result, callbacks>>
        ELSE \E k2 \in linkable(k + 1) \cup {0} : LinkFrom(k2)
  /\ UNCHANGED <<config, batch, script, plan, warnings, probes, planned,
                 actions>>

\* The callback of FileSystemUtilities.rimraf of the prune action
RimrafDone(err) ==
  /\ returns' = returns + 1
  /\ Len(actions) > 1
  /\ actions[2].kind = "prune"
  /\ actionState[2] = "running"
  /\ LET cands == pruneCandidates(plan.root)
     IN IF err
        THEN FinishAction([pool EXCEPT !.state[2] = "failed"], TRUE,
                          Error("prune", cands[prunePos][1]))
        ELSE IF prunePos < Len(cands)
        THEN /\ SetPool([pool EXCEPT !.prunePos = @ + 1,
                                     !.removed = Append(@, cands[prunePos + 1])])
             /\ UNCHANGED <<phase, symlinked, errored, result, callbacks>>
        ELSE FinishAction([pool EXCEPT !.state[2] = "done"], FALSE, NoResult)
  /\ UNCHANGED <<config, batch, script, plan, warnings, probes, planned,
                 actions, linkPos, links>>

\* The callback of NpmUtilities.installInDir of the leaf install action i
LeafInstalled(i, err) ==
  /\ returns' = returns + 1
  /\ i \in DOMAIN actions
  /\ actions[i].kind = "leaf"
  /\ actionState[i] = "running"
  /\ FinishAction([pool EXCEPT !.state[i] = IF err THEN "failed" ELSE "done"],
                  err, leafError(actions[i].dir))
  /\ UNCHANGED <<config, batch, script, plan, warnings, probes, planned,
                 actions, linkPos, links>>

\* The callback of PackageUtilities.symlinkPackages
SymlinkDone(err) ==
  /\ returns' = returns + 1
  /\ symlinked = "running"
  /\ IF err
     THEN /\ symlinked' = "failed"
          /\ Fail(Error("symlink", RootPath))
          /\ UNCHANGED <<batch, script>>
     ELSE /\ symlinked' = "ok"
          /\ BeginLifecycle("postinstall", script)
          /\ UNCHANGED <<result, callbacks>>
  /\ UNCHANGED <<config, plan, warnings, probes, planned, actions, actionState,
                 linkPos, prunePos, installs, links, removed, errored>>

-----------------------------------------------------------------------------
\* The repositories and options a run is checked for.  Local ranges are
\* declared on other packages only, and the package graph has no cycle.
Manifests ==
  {m \in [Packages -> [Names -> 0..NumRanges]] : \A p \in Packages : m[p][p] = 0}

RootManifests ==
  {m \in [Names -> 0..NumRanges] : \A p \in Packages : m[p] = 0}

\* Every package has its own node_modules, except that one package may be
\* the repository root itself and then has the root's.
NodeModules ==
  {m \in [Packages -> {rootNodeModulesLocation} \cup
                        {ownNodeModulesLocation(p) : p \in Packages}] :
     /\ \A p \in Packages :
          m[p] \in {rootNodeModulesLocation, ownNodeModulesLocation(p)}
     /\ Cardinality({p \in Packages : m[p] = rootNodeModulesLocation}) <= 1}

InitConfig ==
  /\ useWorkspaces \in BOOLEAN
  /\ toposort \in BOOLEAN
  /\ concurrency \in 1..MaxConcurrency
  /\ hoist \in BOOLEAN
  /\ nohoist \in SUBSET ExtNames
  /\ hoist = FALSE => nohoist = {}
  /\ pkgVersion \in [Packages -> Ranges]
  /\ allDependencies \in Manifests
  /\ acyclic(filteredPackages)
  /\ rootDeps \in RootManifests
  /\ nodeModules \in NodeModules
  /\ batchedPackages = initialize(toposort)

InitRun ==
  /\ phase = "idle"
  /\ batch = 0
  /\ script = [ph \in LifecyclePhases |-> [p \in Packages |-> "idle"]]
  /\ plan = EmptyPlan
  /\ warnings = <<>>
  /\ probes = <<>>
  /\ planned = 0
  /\ actions = <<>>
  /\ actionState = <<>>
  /\ linkPos = <<0, 0>>
  /\ prunePos = 0
  /\ installs = <<>>
  /\ links = <<>>
  /\ removed = <<>>
  /\ symlinked = "idle"
  /\ errored = FALSE
  /\ result = NoResult
  /\ callbacks = 0
  /\ returns = 0

\* The orchestrated runs: every package is at the newest version, so that a
\* range declared on a package of the repository is satisfied by it, and has
\* a node_modules of its own.
Init ==
  /\ InitConfig
  /\ pkgVersion = [p \in Packages |-> NumRanges]
  /\ nodeModules = [p \in Packages |-> ownNodeModulesLocation(p)]
  /\ InitRun

\* Runs for the dependencies between the packages of the repository: the
\* packages declare no external name and have any version, so that a range
\* declared on a package may or may not be satisfied by it.
InitLocal ==
  /\ InitConfig
  /\ \A p \in Packages, n \in ExtNames : allDependencies[p][n] = 0
  /\ nodeModules = [p \in Packages |-> ownNodeModulesLocation(p)]
  /\ InitRun

\* Runs with hoisting, where the prune action exists: one of the packages
\* may be the repository root itself, its node_modules being the root's.
InitHoisted ==
  /\ InitConfig
  /\ hoist
  /\ pkgVersion = [p \in Packages |-> NumRanges]
  /\ InitRun

Next ==
  \/ Bootstrap
  \/ \E err \in BOOLEAN : WorkspacesInstalled(err)
  \/ \E ph \in LifecyclePhases, p \in Packages, err \in BOOLEAN : ScriptDone(ph, p, err)
  \/ \E err \in BOOLEAN : RootInstalled(err)
  \/ \E err \in BOOLEAN : LinkDone(err)
  \/ \E err \in BOOLEAN : RimrafDone(err)
  \/ \E i \in 1..(NumPkgs + 2), err \in BOOLEAN : LeafInstalled(i, err)
  \/ \E err \in BOOLEAN : SymlinkDone(err)

Spec == Init /\ [][Next]_vars

SpecLocal == InitLocal /\ [][Next]_vars

SpecHoisted == InitHoisted /\ [][Next]_vars

\* A call of a collaborator is in flight: an installer, a lifecycle script,
\* a link, a removal or the symlinking has been called and has not called
\* back.
callsInFlight ==
  \/ \E i \in DOMAIN actionState : actionState[i] = "running"
  \/ \E ph \in LifecyclePhases, p \in Packages : script[ph][p] = "running"
  \/ symlinked = "running"
  \/ phase = "workspaces"

\* One of the calls in flight invokes its callback.
Returns == callsInFlight /\ returns' = returns + 1

\* The run is started, and a call in flight invokes its callback in the end.
SpecFair == Init /\ [][Next]_vars /\ WF_vars(Bootstrap) /\ WF_returns(Returns)

-----------------------------------------------------------------------------
(* Properties.                                                               *)

scriptsStarted(ph) == \E p \in Packages : script[ph][p] # "idle"
scriptsCompleted(ph) == \A p \in Packages : script[ph][p] = "ok"
scriptsRunning(ph) == {p \in Packages : script[ph][p] = "running"}
actionsStarted == \E i \in DOMAIN actionState : actionState[i] # "queued"
actionsCompleted == \A i \in DOMAIN actionState : actionState[i] = "done"
actionFailed == \E i \in DOMAIN actionState : actionState[i] = "failed"
scriptFailed == \E ph \in LifecyclePhases, p \in Packages : script[ph][p] = "failed"

\* C1: without workspaces the phases preinstall, install, symlink,
\* postinstall, prepublish, prepare run strictly in that order: work of a
\* phase has started only if every earlier phase has completed, and once a
\* phase has reported an error the bootstrap has failed (so, by the order, no
\* later phase has any work started).
C1_PhasesInOrder ==
  ~useWorkspaces =>
    /\ (plan # EmptyPlan \/ actionsStarted) => scriptsCompleted("preinstall")
    /\ symlinked # "idle" => scriptsCompleted("preinstall") /\ actionsCompleted
    /\ scriptsStarted("postinstall") =>
         scriptsCompleted("preinstall") /\ actionsCompleted /\ symlinked = "ok"
    /\ scriptsStarted("prepublish") => scriptsCompleted("postinstall")
    /\ scriptsStarted("prepare") => scriptsCompleted("prepublish")
    /\ phase = "done" => scriptsCompleted("prepare")
    /\ (scriptFailed \/ actionFailed \/ symlinked = "failed") =>
         phase = "failed" /\ result.status = "error"

\* A run that went through preinstall, install and symlink and failed in
\* postinstall, with nothing of prepublish started.
C1_Witness ==
  /\ ~useWorkspaces
  /\ Len(actions) > 0
  /\ phase = "failed"
  /\ \E p \in Packages : script["postinstall"][p] = "failed"
  /\ ~scriptsStarted("prepublish")

\* C2 as stated: in every lifecycle phase and for every configuration, a
\* package's script has started only if the script of every package it
\* depends on has finished.
C2_DependencyOrderAlways ==
  \A ph \in LifecyclePhases : \A a \in Packages, b \in Packages :
    (dependsOn(a, b) /\ script[ph][a] # "idle") => script[ph][b] \in {"ok", "failed"}

\* C2, amended: the same when topological sorting is enabled.
C2_DependencyOrderSorted ==
  toposort =>
    \A ph \in LifecyclePhases : \A a \in Packages, b \in Packages :
      (dependsOn(a, b) /\ script[ph][a] # "idle") => script[ph][b] \in {"ok", "failed"}

C2_Witness ==
  /\ toposort
  /\ \E a \in Packages, b \in Packages :
       dependsOn(a, b) /\ script["prepare"][a] = "running"

\* The index of the batch a package is in.
batchOf(p) == CHOOSE n \in DOMAIN batchedPackages : InSeq(p, batchedPackages[n])

C4_ConcurrencyCap ==
  /\ Cardinality({i \in DOMAIN actionState : actionState[i] = "running"}) <= concurrency
  /\ \A ph \in LifecyclePhases : Cardinality(scriptsRunning(ph)) <= concurrency

\* The cap binds: as many actions run as allowed and one more is waiting.
C4_Witness ==
  /\ Cardinality({i \in DOMAIN actionState : actionState[i] = "running"}) = concurrency
  /\ \E i \in DOMAIN actionState : actionState[i] = "queued"

\* The errors an action can report.
errorsOf(a) ==
  CASE a.kind = "root" ->
         {Error("install", RootPath)} \cup {Error("link", p) : p \in Packages}
    [] a.kind = "prune" -> {Error("prune", p) : p \in Packages}
    [] OTHER -> {Error("install", a.dir)}

\* C5: in the install phase, once an action has reported an error no queued
\* action is started, the actions in flight stay in flight until they
\* complete, and the result of the phase stays the first error reported.
C5_FirstErrorCancels ==
  [][ /\ actionFailed =>
           /\ DOMAIN actionState' = DOMAIN actionState
           /\ \A j \in DOMAIN actionState :
                /\ actionState[j] = "queued" => actionState'[j] = "queued"
                /\ actionState[j] = "running" =>
                     actionState'[j] \in {"running", "done", "failed"}
           /\ result' = result
      /\ (~actionFailed /\ actionFailed') =>
           \E i \in DOMAIN actions :
             /\ actionState'[i] = "failed"
             /\ actionState[i] = "running"
             /\ result' \in errorsOf(actions[i])
    ]_vars

\* Two actions failed (the second was in flight at the first error), a
\* third was never started, and the result is not the second's error.
C5_Witness ==
  \E i \in DOMAIN actions, j \in DOMAIN actions, k \in DOMAIN actions :
    /\ actionState[i] = "failed" /\ actionState[j] = "failed" /\ i # j
    /\ actionState[k] = "queued"
    /\ result \in errorsOf(actions[i])
    /\ result \notin errorsOf(actions[j])

\* C6: an error of a lifecycle script, of the root install, of a prune
\* removal or of a leaf install ends the bootstrap with an error that carries
\* the offending package.
C6_ErrorCarriesPackage ==
  (~useWorkspaces /\ result.status = "error"
     /\ result.kind \in {"script", "install", "prune"}) =>
    result.annotated /\ result.pkg = result.origin

\* C7: with workspaces the bootstrap makes one installer invocation, of the
\* original manifest in the root path, and nothing else: no script, no
\* plan, no action, no link, no removal, no sibling symlinks; its result is
\* the result of that invocation.
C7_WorkspacesOnly ==
  useWorkspaces =>
    /\ \A ph \in LifecyclePhases : ~scriptsStarted(ph)
    /\ plan = EmptyPlan /\ actions = <<>> /\ actionState = <<>>
    /\ links = <<>> /\ removed = <<>> /\ symlinked = "idle"
    /\ Len(installs) <= 1
    /\ \A k \in DOMAIN installs : installs[k].original /\ installs[k].dir = RootPath
    /\ phase # "idle" => Len(installs) = 1
    /\ phase \in {"idle", "workspaces", "done", "failed"}
    /\ phase = "done" <=> result = Success
    /\ phase = "failed" <=> result = Error("install", RootPath)

C7_Witness ==
  /\ useWorkspaces
  /\ phase = "failed"
  /\ Len(installs) = 1
  /\ \E p \in Packages, n \in ExtNames : allDependencies[p][n] # 0

rootInvocations == {k \in DOMAIN installs : installs[k].dir = RootPath}
allSpecs(entries) == [i \in DOMAIN entries |-> <<entries[i].name, entries[i].range>>]

\* C8: with at least one root install in the plan the installer is invoked
\* exactly once in the root path, with all root specs if some root install
\* is unsatisfied and with no spec if all are satisfied; with no root
\* install neither the root install action nor the prune action is queued.
C8_RootInstallOnce ==
  ~useWorkspaces =>
    /\ Len(plan.root) > 0 =>
         /\ Cardinality(rootInvocations) = 1
         /\ \A k \in rootInvocations :
              /\ ~installs[k].original
              /\ installs[k].specs =
                   IF \E i \in DOMAIN plan.root : ~plan.root[i].isSatisfied
                   THEN allSpecs(plan.root) ELSE <<>>
         /\ Cardinality({i \in DOMAIN actions : actions[i].kind = "root"}) = 1
    /\ Len(plan.root) = 0 =>
         /\ \A i \in DOMAIN actions : actions[i].kind \notin {"root", "prune"}
         /\ rootInvocations = {}

\* Two root installs, one satisfied and one not, and the root action done.
C8_Witness ==
  /\ Len(plan.root) > 1
  /\ \E i \in DOMAIN plan.root, j \in DOMAIN plan.root :
       plan.root[i].isSatisfied /\ ~plan.root[j].isSatisfied
  /\ actionState[1] = "done"
  /\ \E k \in rootInvocations : Len(installs[k].specs) = Len(plan.root)

leafActionsOf(p) == {i \in DOMAIN actions : actions[i].kind = "leaf" /\ actions[i].dir = p}
invocationsIn(p) == {k \in DOMAIN installs : installs[k].dir = p}

\* C9: a requester with leaf installs has a leaf install action iff one of
\* its leaf installs is unsatisfied; then it has exactly one, which runs the
\* installer once in the requester's location with every leaf spec of the
\* requester.
C9_LeafInstallAction ==
  \A p \in Packages :
    Len(plan.leaves.deps[p]) > 0 =>
      LET ld == plan.leaves.deps[p]
      IN /\ (leafActionsOf(p) # {}) <=> (\E i \in DOMAIN ld : ~ld[i].isSatisfied)
         /\ Cardinality(leafActionsOf(p)) <= 1
         /\ \A i \in leafActionsOf(p) :
              /\ actions[i].specs = allSpecs(ld)
              /\ actionState[i] = "queued" => invocationsIn(p) = {}
              /\ actionState[i] # "queued" =>
                   /\ Cardinality(invocationsIn(p)) = 1
                   /\ \A k \in invocationsIn(p) : installs[k].specs = allSpecs(ld)

\* A requester with a satisfied and an unsatisfied leaf whose action ran.
C9_Witness ==
  \E p \in Packages :
    /\ \E i \in DOMAIN plan.leaves.deps[p], j \in DOMAIN plan.leaves.deps[p] :
         plan.leaves.deps[p][i].isSatisfied /\ ~plan.leaves.deps[p][j].isSatisfied
    /\ \E i \in leafActionsOf(p) : actionState[i] = "done"
    /\ \E k \in invocationsIn(p) : Len(installs[k].specs) = 2

\* The requesters of an external name at a range, from the manifests.
requesters(n, r) == {p \in Packages : allDependencies[p][n] = r}
mostRequested(n) ==
  {r \in Ranges : /\ requesters(n, r) # {}
                  /\ \A r2 \in Ranges :
                       Cardinality(requesters(n, r2)) <= Cardinality(requesters(n, r))}
firstRequester(n, r) == CHOOSE p \in requesters(n, r) : \A q \in requesters(n, r) : p <= q

warningsFor(code, n, p, r) ==
  {k \in DOMAIN warnings : /\ warnings[k].code = code /\ warnings[k].name = n
                           /\ warnings[k].pkg = p /\ warnings[k].version = r}

\* The common range of an external name as the spec defines it: the most
\* requested range, the lexicographically smallest on a tie (the root's own
\* range when no package requests the name).
commonLexicographic(n) ==
  IF mostRequested(n) = {} THEN rootDeps[n]
  ELSE CHOOSE r \in mostRequested(n) : \A r2 \in mostRequested(n) : r <= r2

\* The place of a range among the keys of versions: the root manifest's
\* range is the first key, the others follow in the order of their first
\* requester.
keyPlace(n, r) == IF rootDeps[n] = r THEN 0 ELSE firstRequester(n, r)

\* The common range as the reduce of line 328 finds it: the most requested
\* range, the last key on a tie.
commonLastKey(n) ==
  IF mostRequested(n) = {} THEN rootDeps[n]
  ELSE CHOOSE r \in mostRequested(n) :
         \A r2 \in mostRequested(n) : keyPlace(n, r2) <= keyPlace(n, r)

\* The warnings of a planning run are exactly those of the hoisted external
\* names under the common range common[n]: one EHOIST_ROOT_VERSION for a
\* name whose root range differs from the common range, one EHOIST_PKG_VERSION
\* for each package and range it requests a hoisted name at that differs from
\* the hoisted range, and no other warning.
warningsMatch(common) ==
  /\ \A k \in DOMAIN warnings :
       /\ warnings[k].code \in {"EHOIST_ROOT_VERSION", "EHOIST_PKG_VERSION"}
       /\ isHoistedPackage(warnings[k].name)
  /\ \A n \in Names, r \in Ranges :
       Cardinality(warningsFor("EHOIST_ROOT_VERSION", n, 0, r)) =
         IF /\ n \in ExtNames /\ isHoistedPackage(n)
            /\ rootDeps[n] = r /\ r # common[n]
         THEN 1 ELSE 0
  /\ \A n \in Names, p \in Packages, r \in Ranges :
       Cardinality(warningsFor("EHOIST_PKG_VERSION", n, p, r)) =
         IF /\ n \in ExtNames /\ isHoistedPackage(n)
            /\ allDependencies[p][n] = r
            /\ r # (IF rootDeps[n] # 0 THEN rootDeps[n] ELSE common[n])
         THEN 1 ELSE 0

rootEntries(n) == {i \in DOMAIN plan.root : plan.root[i].name = n}
leafEntries(p, n) == {j \in DOMAIN plan.leaves.deps[p] : plan.leaves.deps[p][j].name = n}

\* C12: in the plan, a requester of an external name has the name in its
\* leaves iff the name is not hoisted or the requester's range differs from
\* the range of the name's root install; then it has one leaf entry, at its
\* own range.  A requester at the root install's range is among that root
\* install's dependents (which holds such requesters only) and has no leaf
\* entry for the name.
C12_HoistExclusivity ==
  planned = 1 =>
    \A p \in Packages, n \in ExtNames :
      allDependencies[p][n] # 0 =>
        /\ Cardinality(rootEntries(n)) = IF isHoistedPackage(n) THEN 1 ELSE 0
        /\ (leafEntries(p, n) # {}) <=>
             \/ ~isHoistedPackage(n)
             \/ \A i \in rootEntries(n) : plan.root[i].range # allDependencies[p][n]
        /\ Cardinality(leafEntries(p, n)) <= 1
        /\ \A j \in leafEntries(p, n) :
             plan.leaves.deps[p][j].range = allDependencies[p][n]
        /\ \A i \in rootEntries(n) :
             /\ InSeq(p, plan.root[i].dependents) <=>
                  plan.root[i].range = allDependencies[p][n]
             /\ plan.root[i].range = allDependencies[p][n] => leafEntries(p, n) = {}

\* A hoisted name with one requester at the root install's range and one at
\* another range, which has a leaf entry.
C12_Witness ==
  /\ planned = 1
  /\ \E n \in ExtNames, p \in Packages, q \in Packages, i \in DOMAIN plan.root :
       /\ plan.root[i].name = n
       /\ InSeq(p, plan.root[i].dependents)
       /\ leafEntries(q, n) # {}

\* C13: coverage: in the plan every external name a filtered package
\* declares is the name of a root install or of an entry of some requester's
\* leaves, whatever the hoist and nohoist settings and the root manifest.
C13_Coverage ==
  planned = 1 =>
    \A p \in Packages, n \in ExtNames :
      allDependencies[p][n] # 0 =>
        \/ rootEntries(n) # {}
        \/ \E q \in Packages : leafEntries(q, n) # {}

\* A hoisted name the root has installed, requested at the root manifest's
\* range only: it is covered by its root install and by no leaf.
C13_Witness ==
  /\ planned = 1
  /\ \E n \in ExtNames, p \in Packages :
       /\ allDependencies[p][n] # 0
       /\ rootDeps[n] # 0
       /\ \A q \in Packages : leafEntries(q, n) = {}
       /\ \E i \in rootEntries(n) : plan.root[i].isSatisfied

\* pkg.hasMatchingDependency(dep, true) answered true for a's dependency b.
matched(a, b) ==
  \E k \in DOMAIN probes :
    /\ probes[k].call = "hasMatchingDependency"
    /\ probes[k].dir = a /\ probes[k].name = b /\ probes[k].answer

declarers(b) == {a \in Packages : allDependencies[a][b] # 0}

\* C14: for a package b of the repository that other packages declare: if
\* b's version satisfies the range of every package declaring it and their
\* local dependency matches, b is in no root install and in no leaves; if
\* b's version does not satisfy the range a declares then, with hoisting
\* disabled, a has exactly one leaf entry for b, at a's range, and b has no
\* root install.
C14_LocalDependency ==
  planned = 1 =>
    \A b \in Packages :
      /\ (/\ declarers(b) # {}
          /\ \A a \in declarers(b) :
               satisfies(pkgVersion[b], allDependencies[a][b]) /\ matched(a, b))
         => /\ rootEntries(b) = {}
            /\ \A q \in Packages : leafEntries(q, b) = {}
      /\ \A a \in declarers(b) :
           (~satisfies(pkgVersion[b], allDependencies[a][b]) /\ ~hoist) =>
             /\ Cardinality(leafEntries(a, b)) = 1
             /\ \A j \in leafEntries(a, b) :
                  plan.leaves.deps[a][j].range = allDependencies[a][b]
             /\ rootEntries(b) = {}

\* Both cases in one plan: a declares b at a range b's version satisfies, b
\* declares a at a range a's version does not satisfy, hoisting disabled.
C14_Witness ==
  /\ planned = 1 /\ ~hoist
  /\ \E a \in Packages, b \in Packages :
       /\ a # b
       /\ allDependencies[a][b] # 0 /\ satisfies(pkgVersion[b], allDependencies[a][b])
       /\ matched(a, b)
       /\ allDependencies[b][a] # 0 /\ ~satisfies(pkgVersion[a], allDependencies[b][a])
       /\ leafEntries(b, a) # {}

\* The actions a step starts.
startedNow(i) == actionState[i] = "queued" /\ actionState'[i] # "queued"

C16_PlanBeforePhaseA ==
  /\ planned <= 1
  /\ scriptsStarted("preinstall") => planned = 1
  /\ (useWorkspaces /\ installs # <<>>) => planned = 1

PhaseSteps ==
  {<<"idle", "workspaces">>, <<"idle", "preinstall">>,
   <<"workspaces", "done">>, <<"workspaces", "failed">>,
   <<"preinstall", "install">>, <<"preinstall", "symlink">>,
   <<"preinstall", "failed">>,
   <<"install", "symlink">>, <<"install", "failed">>,
   <<"symlink", "postinstall">>, <<"symlink", "failed">>,
   <<"postinstall", "prepublish">>, <<"postinstall", "failed">>,
   <<"prepublish", "prepare">>, <<"prepublish", "failed">>,
   <<"prepare", "done">>, <<"prepare", "failed">>}

\* C16, amended: the bootstrap follows Idle -> (WorkspacesInstall | PhaseA
\* -> Planning, PhaseB -> ... -> PhaseF) -> Done|Failed: the plan is built at
\* most once, in the step that ends a successful preinstall phase and
\* begins the install phase, before any action of that phase; it is not
\* built when preinstall fails, nor with workspaces.
C16_PlanAtPhaseB ==
  [][ /\ phase' # phase => <<phase, phase'>> \in PhaseSteps
      /\ planned' # planned =>
           /\ planned = 0 /\ planned' = 1
           /\ ~useWorkspaces
           /\ phase = "preinstall" /\ phase' \in {"install", "symlink"}
           /\ \A p \in Packages : script'["preinstall"][p] = "ok"
           /\ actionState = <<>> /\ installs = <<>>
      /\ (phase = "preinstall" /\ phase' \in {"install", "symlink"}) => planned' = 1
      /\ (planned = 0 /\ planned' = 0) =>
           /\ plan' = EmptyPlan /\ probes' = <<>> /\ warnings' = <<>>
           /\ actions' = <<>>
    ]_vars

\* A run that planned, probed the disk and went through every phase.
C16_Witness ==
  /\ planned = 1 /\ phase = "done"
  /\ Len(probes) > 0
  /\ Len(actions) > 0

rootActionIs(st) == Len(actions) > 0 /\ actions[1].kind = "root" /\ actionState[1] = st

\* The dependent a link position stands for.
linkAt(pos) == [name |-> plan.root[pos[1]].name, pkg |-> plan.root[pos[1]].dependents[pos[2]]]

\* C17: a binary link is created only while the root action is running,
\* after its installer invocation succeeded: the first right when the
\* installer succeeds, each further one when the link before it succeeded,
\* one at a time, for the next dependent of the same root install or, that
\* install's dependents being through, for the first dependent of a later
\* one.  When the installer fails no link is created; a link error stops the
\* links and fails the action; the action completes only with no link in
\* flight and the last root install linked through its last dependent.
C17_LinksAfterRootInstall ==
  [][ /\ links' # links =>
           /\ rootActionIs("running") /\ actionState'[1] = "running"
           /\ Len(links') = Len(links) + 1
           /\ \A k \in DOMAIN links : links'[k] = links[k]
           /\ linkPos' # <<0, 0>>
           /\ links'[Len(links')] = linkAt(linkPos')
           /\ \A k \in DOMAIN links : links[k] # linkAt(linkPos')
           /\ IF linkPos = <<0, 0>>
              THEN links = <<>> /\ linkPos'[2] = 1
              ELSE \/ linkPos' = <<linkPos[1], linkPos[2] + 1>>
                   \/ /\ linkPos'[1] > linkPos[1] /\ linkPos'[2] = 1
                      /\ linkPos[2] = Len(plan.root[linkPos[1]].dependents)
      /\ (rootActionIs("running") /\ linkPos = <<0, 0>> /\ actionState'[1] = "failed") =>
           links = <<>> /\ links' = <<>>
      /\ (linkPos # <<0, 0>> /\ actionState'[1] = "failed") =>
           links' = links /\ linkPos' = <<0, 0>>
      /\ (rootActionIs("running") /\ actionState'[1] = "done") =>
           /\ linkPos' = <<0, 0>> /\ links' = links
           /\ linkPos # <<0, 0>> => linkPos[2] = Len(plan.root[linkPos[1]].dependents)
      /\ linkPos # <<0, 0>> => rootActionIs("running")
    ]_vars

\* The root action completed after linking a root install into two
\* dependents.
C17_Witness ==
  /\ rootActionIs("done")
  /\ Len(links) > 1
  /\ links[1].name = links[2].name /\ links[1].pkg # links[2].pkg

pruneActionIs(st) == Len(actions) > 1 /\ actions[2].kind = "prune" /\ actionState[2] = st

\* The directories <node_modules of a dependent>/<name> of the root
\* installs, for the dependents whose node_modules is not the root's; a
\* directory is named by the dependent and the name.
shadowDirs ==
  {d \in Packages \X Names :
     /\ \E i \in rootEntries(d[2]) : InSeq(d[1], plan.root[i].dependents)
     /\ nodeModules[d[1]] # rootNodeModulesLocation}

\* C18: the prune action removes the shadowing directories and no other,
\* each once: all of them when it completes; with none to remove it
\* completes at once, removing nothing; when it has failed, at a removal,
\* the install phase and the bootstrap have failed.
C18_PruneExact ==
  /\ SeqToSet(removed) \subseteq shadowDirs
  /\ Cardinality(SeqToSet(removed)) = Len(removed)
  /\ pruneActionIs("done") => SeqToSet(removed) = shadowDirs
  /\ pruneActionIs("running") => removed # <<>>
  /\ (shadowDirs = {} /\ Len(actions) > 1 /\ actions[2].kind = "prune") =>
       /\ actionState[2] \in {"queued", "done"}
       /\ removed = <<>>
  /\ pruneActionIs("failed") =>
       /\ removed # <<>>
       /\ phase = "failed" /\ result.status = "error"
       /\ symlinked = "idle"

\* The prune action completed: a root install has a dependent at the
\* repository root, whose directory was left alone, and another one, whose
\* directory was removed.
C18_Witness ==
  /\ pruneActionIs("done")
  /\ Len(removed) = 1
  /\ \E i \in DOMAIN plan.root, p \in Packages :
       /\ InSeq(p, plan.root[i].dependents)
       /\ nodeModules[p] = rootNodeModulesLocation

specNames(specs) == {specs[k][1] : k \in DOMAIN specs}

\* C19: in every plan, a package that is a dependent of the root install of
\* a name has no leaf entry for that name; so no directory the prune action
\* removes is that of a dependency a leaf install action installs: no leaf
\* action of the package has a spec for the name, and no installer
\* invocation in the package's location was given one.
C19_PruneLeafDisjoint ==
  planned = 1 =>
    /\ \A p \in Packages, n \in Names :
         (\E i \in rootEntries(n) : InSeq(p, plan.root[i].dependents)) =>
           /\ leafEntries(p, n) = {}
           /\ \A i \in leafActionsOf(p) : n \notin specNames(actions[i].specs)
    /\ \A k \in DOMAIN removed :
         \A m \in invocationsIn(removed[k][1]) :
           removed[k][2] \notin specNames(installs[m].specs)

\* The prune action removed a package's copy of a hoisted name while a leaf
\* install action for the same name, in another package, had been started.
C19_Witness ==
  /\ planned = 1
  /\ \E k \in DOMAIN removed, q \in Packages :
       /\ q # removed[k][1]
       /\ \E m \in invocationsIn(q) : removed[k][2] \in specNames(installs[m].specs)
       /\ \E i \in leafActionsOf(q) : actionState[i] = "running"
       /\ pruneActionIs("running")

terminated == phase \in {"done", "failed"}

\* C20: when every call invokes its callback, every run ends Done or Failed
\* and stays so, with no call left in flight; the callback of
\* bootstrapPackages is invoked once, when the run ends, and never again,
\* whatever fails afterwards: Done with no error, Failed with one.  A step
\* of a started run is always the callback of a call in flight.
C20_TerminatesOnce ==
  /\ <>[](terminated /\ ~callsInFlight)
  /\ [](callbacks <= 1)
  /\ [](terminated <=> callbacks = 1)
  /\ [](phase = "done" <=> result = Success)
  /\ [](phase = "failed" <=> result.status = "error")
  /\ [][terminated => (phase' = phase /\ result' = result)]_vars
  /\ [][phase # "idle" => callsInFlight]_vars

\* Two actions of the install phase have failed, one after the other, and
\* the callback was invoked once.
C20_Witness ==
  /\ phase = "failed" /\ callbacks = 1
  /\ \E i \in DOMAIN actionState, j \in DOMAIN actionState :
       i # j /\ actionState[i] = "failed" /\ actionState[j] = "failed"
=============================================================================
